---------------------------- MODULE Spec2Model ----------------------------
(***************************************************************************)
(* Model of invenio_rdm_records/theme/views.py: the template filters       *)
(* select_preview_file, to_previewer_files, make_files_preview_compatible, *)
(* pid_url and the view file_download_ui.                                  *)
(*                                                                         *)
(* Python values:                                                          *)
(*   - an optional value is a sequence of length <= 1: None is << >> and   *)
(*     a value v that may also be None is Some(v) = << v >>;               *)
(*   - a str that the code takes apart (a file key) is the sequence of its *)
(*     code points; other strs are TLA+ strings;                           *)
(*   - a dict is a function (a record) whose DOMAIN is its set of keys.    *)
(***************************************************************************)
EXTENDS Integers, Sequences, FiniteSets, TLC

VARIABLES
    pc,              \* position of the call being executed
    files,           \* select_preview_file: argument files (optional list)
    default_preview, \* select_preview_file: argument default_preview (optional key)
    selected,        \* select_preview_file: returned value (optional descriptor)
    record_files,    \* normalizers: the record's file collection, in iteration order
    file_objects,    \* normalizers: the returned list
    pid_in,          \* pid_url: arguments and the outcomes of the idutils calls
    pid_scheme,      \* pid_url: local variable scheme (optional)
    pid_out,         \* pid_url: returned str, or the optional exception that left the filter
    warnings,        \* pid_url: number of records written by current_app.logger.warning
    request,         \* file_download_ui: record, view kwargs, request.args, caller's permission
    fileobj,         \* file_download_ui: result of _record_file_factory (optional)
    send_args,       \* file_download_ui: keyword arguments given to send_object (optional)
    perm_checked,    \* file_download_ui: TRUE once a read_files permission check was evaluated
    response         \* file_download_ui: status, disposition and bytes of body written

vars == << pc, files, default_preview, selected, record_files, file_objects,
           pid_in, pid_scheme, pid_out, warnings,
           request, fileobj, send_args, perm_checked, response >>

selectVars == << files, default_preview, selected >>
normVars == << record_files, file_objects >>
pidVars == << pid_in, pid_scheme, pid_out, warnings >>
downloadVars == << request, fileobj, send_args, perm_checked, response >>

-----------------------------------------------------------------------------
(* Bounds of the model *)

MaxFiles == 3   \* longest file list given to a filter
MaxSize == 2    \* largest stored object, in chunks of body

-----------------------------------------------------------------------------
(* Python values *)

None == << >>
Some(v) == << v >>
\* truth value of an optional list, and of an optional TLA+ string
Truthy(opt) == opt # None /\ opt[1] # << >>
TruthyStr(opt) == opt # None /\ opt[1] # ""
\* dict.get(k): the value under k, None when k is not a key
Get(d, k) == IF k \in DOMAIN d THEN Some(d[k]) ELSE None
EmptyDict == [k \in {} |-> None]

Dot == 46       \* os.extsep '.'
Slash == 47     \* os.sep '/'

\* str.lower() on one code point (ASCII letters)
LowerChar(c) == IF c >= 65 /\ c <= 90 THEN c + 32 ELSE c
Lower(s) == [i \in 1..Len(s) |-> LowerChar(s[i])]

\* str.rfind(c): the last index of c in s, 0 when absent (1-based)
RFind(s, c) ==
    LET idx == {i \in 1..Len(s) : s[i] = c}
    IN  IF idx = {} THEN 0 ELSE CHOOSE i \in idx : \A j \in idx : j <= i

\* os.path.splitext(p)[1]: the extension with its dot; a dot is an extension
\* separator only when it follows the last '/' and some character between
\* that '/' and the dot is not itself a dot (leading dots are not extensions)
SplitextExt(p) ==
    LET sepIndex == RFind(p, Slash)
        dotIndex == RFind(p, Dot)
    IN  IF /\ dotIndex > sepIndex
           /\ \E i \in (sepIndex + 1)..(dotIndex - 1) : p[i] # Dot
        THEN SubSeq(p, dotIndex, Len(p))
        ELSE << >>

\* splitext(f['key'])[1][1:].lower()
FileType(key) ==
    LET ext == SplitextExt(key)
    IN  Lower(IF ext = << >> THEN << >> ELSE Tail(ext))

\* invenio_previewer.views.is_previewable: the extension is one that an
\* installed previewer declares ("p" and "png" here)
PreviewableExtensions == { <<112>>, <<112, 110, 103>> }
is_previewable(file_type) == file_type \in PreviewableExtensions

\* Python's str ordering: by code point, a proper prefix sorts first
RECURSIVE StrLess(_, _)
StrLess(a, b) ==
    IF b = << >> THEN FALSE
    ELSE IF a = << >> THEN TRUE
    ELSE IF a[1] # b[1] THEN a[1] < b[1]
    ELSE StrLess(Tail(a), Tail(b))

-----------------------------------------------------------------------------
(* select_preview_file *)

\* sorted() is stable: x goes after every element whose key is not larger
RECURSIVE InsertByKey(_, _)
InsertByKey(x, s) ==
    IF s = << >> THEN << x >>
    ELSE IF StrLess(x.key, s[1].key) THEN << x >> \o s
    ELSE << s[1] >> \o InsertByKey(x, Tail(s))

RECURSIVE SortedByKey(_)
SortedByKey(s) ==
    IF s = << >> THEN << >>
    ELSE InsertByKey(s[Len(s)], SortedByKey(SubSeq(s, 1, Len(s) - 1)))

\* the order the loop visits: input order, an unsorted scan
UnsortedByKey(s) == s

\* the order the loop visits
ScanOrder(s) == SortedByKey(s)

\* one iteration of the loop body, first match only
StepFirstOnly(sel, f, dflt) ==
    IF is_previewable(FileType(f.key)) /\ sel = None THEN Some(f) ELSE sel

\* one iteration of the loop body
Step(sel, f, dflt) ==
    IF is_previewable(FileType(f.key))
    THEN IF sel = None THEN Some(f)
         ELSE IF Some(f.key) = dflt THEN Some(f)
         ELSE sel
    ELSE sel

RECURSIVE Scan(_, _, _)
Scan(sel, s, dflt) ==
    IF s = << >> THEN sel ELSE Scan(Step(sel, s[1], dflt), Tail(s), dflt)

\* files or []
FilesOrEmpty(fs) == IF Truthy(fs) THEN fs[1] ELSE << >>

\* itemgetter('key') raises KeyError on a descriptor without 'key'; sorted()
\* applies it to every element before the loop body runs
RaisesKeyError(s) == \E i \in 1..Len(s) : "key" \notin DOMAIN s[i]

select_preview_file(fs, dflt) ==
    LET s == FilesOrEmpty(fs)
    IN  IF RaisesKeyError(s) THEN None
        ELSE Scan(None, ScanOrder(s), dflt)

-----------------------------------------------------------------------------
(* Inputs of select_preview_file *)

KeyPool == { <<97, 46, 112>>,             \* "a.p"    previewable
             <<98, 46, 80>>,              \* "b.P"    previewable once lowered
             <<66, 46, 112, 110, 103>>,   \* "B.png"  previewable, sorts before "a.p"
             <<99, 46, 120>>,             \* "c.x"    extension not previewable
             <<46, 112>>,                 \* ".p"     a leading dot is no extension
             <<97, 46, 112, 47, 100>> }   \* "a.p/d"  the dot precedes the last '/'

Checksums == {"md5:1", "md5:2"}

\* file descriptors: dicts with 'key' and 'checksum', or with no 'key'
Descriptors ==
    [key : KeyPool, checksum : Checksums] \cup [checksum : Checksums]

RECURSIVE SeqsUpTo(_, _)
SeqsUpTo(S, n) ==
    IF n = 0 THEN { << >> }
    ELSE LET shorter == SeqsUpTo(S, n - 1)
         IN  shorter \cup {Append(s, x) : s \in {t \in shorter : Len(t) = n - 1}, x \in S}

SelectIdle == files = None /\ default_preview = None /\ selected = None
NormIdle == record_files = << >> /\ file_objects = << >>
PidIdle ==
    pid_in = EmptyDict /\ pid_scheme = None /\ pid_out = None /\ warnings = 0
DownloadIdle ==
    /\ request = EmptyDict /\ fileobj = None /\ send_args = None
    /\ perm_checked = FALSE /\ response = EmptyDict

InitSelect ==
    /\ pc = "select_preview_file"
    /\ files \in {None} \cup {Some(s) : s \in SeqsUpTo(Descriptors, MaxFiles)}
    /\ default_preview \in {None} \cup {Some(k) : k \in KeyPool}
    /\ selected = None
    /\ NormIdle /\ PidIdle /\ DownloadIdle

SelectPreviewFile ==
    /\ pc = "select_preview_file"
    /\ selected' = select_preview_file(files, default_preview)
    /\ pc' = "select_done"
    /\ UNCHANGED << files, default_preview, normVars, pidVars, downloadVars >>

NextSelect == SelectPreviewFile

SpecSelect == InitSelect /\ [][NextSelect]_vars

-----------------------------------------------------------------------------
(* Properties of select_preview_file *)

FileList == FilesOrEmpty(files)
Keyed == {i \in 1..Len(FileList) : "key" \in DOMAIN FileList[i]}
Previewable == {i \in Keyed : is_previewable(FileType(FileList[i].key))}
AllKeyed == Keyed = 1..Len(FileList)
DefaultNamesPreviewable ==
    \E i \in Previewable : Some(FileList[i].key) = default_preview

\* C2: when every entry has a key and default_preview is the key of a
\* previewable file of the list, the result is a file of the list with that
\* key (the file, keys being unique), whatever sorts before or after it.
C2_DefaultWins ==
    (pc = "select_done" /\ AllKeyed /\ DefaultNamesPreviewable) =>
        /\ selected # None
        /\ \E i \in Previewable : selected = Some(FileList[i])
        /\ Some(selected[1].key) = default_preview

C2_Witness ==
    /\ pc = "select_done" /\ AllKeyed /\ DefaultNamesPreviewable
    /\ \E i \in Previewable : StrLess(FileList[i].key, default_preview[1])
    /\ \E i \in Previewable : StrLess(default_preview[1], FileList[i].key)
    /\ Some(selected[1].key) = default_preview

\* C6: a list with a previewable keyed entry and an entry without a key
\* still yields a previewable entry of the list.
C6_MissingKeySkipped ==
    (pc = "select_done" /\ Previewable # {} /\ ~AllKeyed) =>
        /\ selected # None
        /\ \E i \in Previewable : selected = Some(FileList[i])

\* C7: when default_preview is None or names no previewable file, the result
\* is the previewable file with the smallest key if one exists, else None.
C7_Fallback ==
    (pc = "select_done" /\ ~DefaultNamesPreviewable) =>
        IF Previewable = {} THEN selected = None
        ELSE /\ selected # None
             /\ \E i \in Previewable :
                    /\ selected = Some(FileList[i])
                    /\ \A j \in Previewable :
                           ~StrLess(FileList[j].key, FileList[i].key)

Perms(n) == {p \in [1..n -> 1..n] : \A i, j \in 1..n : p[i] = p[j] => i = j}
Permuted(s, p) == [i \in 1..Len(s) |-> s[p[i]]]

\* C8: every permutation of the input list yields the same selected
\* descriptor, also when two descriptors carry the same key.
C8_Determinism ==
    pc = "select_done" =>
        \A p \in Perms(Len(FileList)) :
            select_preview_file(Some(Permuted(FileList, p)), default_preview)
                = selected

SameKeySameDescriptor ==
    \A i, j \in Keyed :
        FileList[i].key = FileList[j].key => FileList[i] = FileList[j]

\* C8 (amended): every permutation of the input list yields the same selected
\* descriptor provided descriptors that carry the same key are equal.
C8_DeterminismUniqueKeys ==
    (pc = "select_done" /\ SameKeySameDescriptor) =>
        \A p \in Perms(Len(FileList)) :
            select_preview_file(Some(Permuted(FileList, p)), default_preview)
                = selected

C8_Witness ==
    /\ pc = "select_done" /\ SameKeySameDescriptor /\ AllKeyed
    /\ Cardinality(Previewable) >= 2
    /\ \E i, j \in Previewable : i < j /\ StrLess(FileList[j].key, FileList[i].key)
    /\ selected # None

-----------------------------------------------------------------------------
(* to_previewer_files and make_files_preview_compatible *)

\* invenio_records_files.api.FileObject(obj, data)
FileObject(obj, data) == [obj |-> obj, data |-> data]

\* FileObject.dumps(): the data dict updated with the fields of the object
\* version (bucket, checksum, key, size, version_id), returned as a dict
Dumps(fo) ==
    [k \in DOMAIN fo.data \cup DOMAIN fo.obj |->
        IF k \in DOMAIN fo.obj THEN fo.obj[k] ELSE fo.data[k]]

\* f.metadata or {}
MetadataOrEmpty(m) == IF m # None /\ DOMAIN m[1] # {} THEN m[1] ELSE EmptyDict

\* a comprehension that keeps only the files that have metadata
to_previewer_files_filtered(rfs) ==
    LET kept == SelectSeq(rfs, LAMBDA f : f.metadata # None)
    IN  [i \in 1..Len(kept) |->
            FileObject(kept[i].object_version, MetadataOrEmpty(kept[i].metadata))]

\* [FileObject(obj=f.object_version, data=f.metadata or {})
\*  for f in record.files.values()]
to_previewer_files(rfs) ==
    [i \in 1..Len(rfs) |->
        FileObject(rfs[i].object_version, MetadataOrEmpty(rfs[i].metadata))]

\* for file in files: FileObject(obj=files[file].object_version, data={}).dumps()
make_files_preview_compatible(rfs) ==
    [i \in 1..Len(rfs) |-> Dumps(FileObject(rfs[i].object_version, EmptyDict))]

RecordKeys == {"data.csv", "fig.png", "notes.txt"}
VersionIds == {"v1", "v2"}
Metadatas ==
    { None, Some(EmptyDict), Some([description |-> "d", checksum |-> "md5:meta"]) }

\* the values of record.files: one per key, in the mapping's iteration order
RecordFiles ==
    {rfs \in SeqsUpTo([key : RecordKeys, version_id : VersionIds,
                       metadata : Metadatas], MaxFiles) :
        \A i, j \in 1..Len(rfs) : rfs[i].key = rfs[j].key => i = j}

\* a record file as the filters see it: .object_version and .metadata
AsRecordFile(r) ==
    [object_version |-> [key |-> r.key, version_id |-> r.version_id,
                         checksum |-> "md5:obj"],
     metadata |-> r.metadata]

InitNormalize ==
    /\ pc = "normalize"
    /\ \E rfs \in RecordFiles :
           record_files = [i \in 1..Len(rfs) |-> AsRecordFile(rfs[i])]
    /\ file_objects = << >>
    /\ SelectIdle /\ PidIdle /\ DownloadIdle

ToPreviewerFiles ==
    /\ pc = "normalize"
    /\ file_objects' = to_previewer_files(record_files)
    /\ pc' = "to_previewer_files_done"
    /\ UNCHANGED << record_files, selectVars, pidVars, downloadVars >>

MakeFilesPreviewCompatible ==
    /\ pc = "normalize"
    /\ file_objects' = make_files_preview_compatible(record_files)
    /\ pc' = "make_files_preview_compatible_done"
    /\ UNCHANGED << record_files, selectVars, pidVars, downloadVars >>

NextNormalize == ToPreviewerFiles \/ MakeFilesPreviewCompatible

SpecNormalize == InitNormalize /\ [][NextNormalize]_vars

NormalizeDone ==
    pc \in {"to_previewer_files_done", "make_files_preview_compatible_done"}

\* entry e is {obj: f's object_version, data: f's metadata or an empty mapping}
IsFileEntryOf(e, f) ==
    /\ DOMAIN e = {"obj", "data"}
    /\ e.obj = f.object_version
    /\ IF f.metadata = None THEN DOMAIN e.data = {}
       ELSE e.data = f.metadata[1]

-----------------------------------------------------------------------------
(* pid_url *)

\* what leaves the filter: a returned str (the sequence of its parts, ''
\* being the empty sequence) or a propagating exception
Return(url) == [kind |-> "return", value |-> url]
Raise(exc) == [kind |-> "raise", value |-> << exc >>]

\* idutils.detect_identifier_schemes(identifier)[0] under
\* "except IndexError: scheme = None"; any other exception propagates
DetectedScheme(in) ==
    IF in.detect.raises THEN Raise("TypeError")
    ELSE IF in.detect.schemes = << >> THEN Return(None)
    ELSE Return(Some(in.detect.schemes[1]))

\* the second try block with "except Exception" removed
UrlOrEmptyUncaught(scheme, in) ==
    IF TruthyStr(scheme) /\ TruthyStr(in.identifier)
    THEN IF in.to_url_raises
         THEN [out |-> Raise("Exception"), logged |-> 0]
         ELSE [out |-> Return(<< in.url_scheme, scheme[1], in.identifier[1] >>),
               logged |-> 0]
    ELSE [out |-> Return(<< >>), logged |-> 0]

\* the second try block and the final return '': the value returned and
\* the number of warnings logged
UrlOrEmpty(scheme, in) ==
    IF TruthyStr(scheme) /\ TruthyStr(in.identifier)
    THEN IF in.to_url_raises
         THEN [out |-> Return(<< >>), logged |-> 1]
         ELSE [out |-> Return(<< in.url_scheme, scheme[1], in.identifier[1] >>),
               logged |-> 0]
    ELSE [out |-> Return(<< >>), logged |-> 0]

Identifiers == {None, Some(""), Some("10.5281/zenodo.1"), Some("0000-0002-1825-0097")}
SchemeArgs == {None, Some(""), Some("doi"), Some("orcid")}
UrlSchemes == {"https", "http"}
\* outcomes of idutils.detect_identifier_schemes: a list of schemes, or an
\* exception that is not an IndexError
DetectOutcomes ==
    { [raises |-> TRUE, schemes |-> << >>],
      [raises |-> FALSE, schemes |-> << >>],
      [raises |-> FALSE, schemes |-> << "doi" >>],
      [raises |-> FALSE, schemes |-> << "orcid", "isni" >>] }

InitPid ==
    /\ pc = "pid_url"
    /\ pid_in \in [identifier : Identifiers, scheme : SchemeArgs,
                   url_scheme : UrlSchemes, detect : DetectOutcomes,
                   to_url_raises : BOOLEAN]
    /\ pid_scheme = None /\ pid_out = None /\ warnings = 0
    /\ SelectIdle /\ NormIdle /\ DownloadIdle

\* lines 100-104: the scheme argument, or the first detected scheme
PidDetectScheme ==
    /\ pc = "pid_url"
    /\ IF pid_in.scheme # None
       THEN pid_scheme' = pid_in.scheme /\ pid_out' = None /\ pc' = "pid_to_url"
       ELSE LET d == DetectedScheme(pid_in)
            IN  IF d.kind = "raise"
                THEN pid_scheme' = None /\ pid_out' = Some(d) /\ pc' = "pid_done"
                ELSE pid_scheme' = d.value /\ pid_out' = None /\ pc' = "pid_to_url"
    /\ UNCHANGED << pid_in, warnings, selectVars, normVars, downloadVars >>

\* lines 105-111
PidToUrl ==
    /\ pc = "pid_to_url"
    /\ LET r == UrlOrEmpty(pid_scheme, pid_in)
       IN  pid_out' = Some(r.out) /\ warnings' = warnings + r.logged
    /\ pc' = "pid_done"
    /\ UNCHANGED << pid_in, pid_scheme, selectVars, normVars, downloadVars >>

NextPid == PidDetectScheme \/ PidToUrl

SpecPid == InitPid /\ [][NextPid]_vars

DetectionRaised == pid_in.scheme = None /\ pid_in.detect.raises
DetectedNothing ==
    pid_in.scheme = None /\ ~pid_in.detect.raises /\ pid_in.detect.schemes = << >>
ToUrlFailed ==
    /\ ~DetectionRaised
    /\ TruthyStr(pid_scheme) /\ TruthyStr(pid_in.identifier)
    /\ pid_in.to_url_raises

\* C10: whenever the scheme cannot be classified (detection yields no scheme,
\* or detection or URL generation fails) the filter returns '' instead of
\* raising and a warning is logged.
C10_EmptyAndWarned ==
    (pc = "pid_done" /\ (DetectedNothing \/ DetectionRaised \/ ToUrlFailed)) =>
        pid_out = Some(Return(<< >>)) /\ warnings >= 1

\* C10 (amended): the filter returns '' without raising when detection yields
\* no scheme or when URL generation raises; a warning is logged exactly when
\* URL generation raises (none when detection yields no scheme); an exception
\* of scheme detection other than IndexError leaves the filter uncaught.
C10_EmptyOnUnclassified ==
    pc = "pid_done" =>
        /\ DetectedNothing => (pid_out = Some(Return(<< >>)) /\ warnings = 0)
        /\ ToUrlFailed => (pid_out = Some(Return(<< >>)) /\ warnings = 1)
        /\ warnings >= 1 => ToUrlFailed
        /\ pid_out[1].kind = "raise" <=> DetectionRaised

C10_Witness ==
    /\ pc = "pid_done" /\ ToUrlFailed /\ pid_in.scheme = None
    /\ pid_out = Some(Return(<< >>)) /\ warnings = 1

-----------------------------------------------------------------------------
(* file_download_ui *)

FileNames == {"data.csv", "fig.png"}
StoredChecksums == {"md5:1", "md5:2"}

\* the file objects a record can hold under a name: the stored object (its
\* bucket, its actual checksum, its size in chunks) and the entry's data,
\* which carries the recorded checksum or has no 'checksum' field
FileObjectsOf(name) ==
    {FileObject([bucket_id |-> "bucket-1", key |-> name, checksum |-> c, size |-> n], d) :
        c \in StoredChecksums, n \in 1..MaxSize,
        d \in {[key |-> name], [key |-> name, checksum |-> "md5:1"]}}

\* record.files: a mapping from some of the names to file objects
RecordFileMaps ==
    UNION {{m \in [N -> UNION {FileObjectsOf(n) : n \in N}] :
               \A n \in N : m[n].obj.key = n} : N \in SUBSET FileNames}

\* the view's **kwargs: with or without 'filename'
Kwargs == {EmptyDict} \cup {[filename |-> n] : n \in FileNames \cup {"missing.bin"}}

\* request.args
QueryArgs ==
    { EmptyDict, [download |-> ""], [download |-> "1"], [download |-> "0"],
      [preview |-> "download"], [preview |-> "1", download |-> ""] }

InitDownload ==
    /\ pc = "file_download_ui"
    /\ request \in [record_files : RecordFileMaps, kwargs : Kwargs,
                    args : QueryArgs, can_read_files : BOOLEAN,
                    pid : {[pid_type |-> "recid", pid_value |-> "12345-abcde"]}]
    /\ fileobj = None /\ send_args = None
    /\ perm_checked = FALSE
    /\ response = [status |-> 0, disposition |-> "", body |-> 0]
    /\ SelectIdle /\ NormIdle /\ PidIdle

\* previewer_record_file_factory(pid, record, filename): the file object
\* stored under filename, None when there is none; without a filename the
\* factory applies a default rule of its own
RecordFileFactory(req) ==
    LET fn == Get(req.kwargs, "filename")
    IN  IF fn = None
        THEN {None} \cup {Some(req.record_files[n]) : n \in DOMAIN req.record_files}
        ELSE IF fn[1] \in DOMAIN req.record_files
             THEN {Some(req.record_files[fn[1]])}
             ELSE {None}

\* lines 153-158
ResolveFile ==
    /\ pc = "file_download_ui"
    /\ fileobj' \in RecordFileFactory(request)
    /\ pc' = "resolved"
    /\ UNCHANGED << request, send_args, perm_checked, response,
                    selectVars, normVars, pidVars >>

\* the view without "if not fileobj: abort(404)": fileobj.obj on None raises
\* and the request ends as an internal error
AbortMissing ==
    /\ pc = "resolved"
    /\ fileobj = None
    /\ response' = [response EXCEPT !.status = 500]
    /\ pc' = "download_done"
    /\ UNCHANGED << request, fileobj, send_args, perm_checked,
                    selectVars, normVars, pidVars >>

\* lines 159-160: if not fileobj: abort(404)
Abort404 ==
    /\ pc = "resolved"
    /\ fileobj = None
    /\ response' = [response EXCEPT !.status = 404]
    /\ pc' = "download_done"
    /\ UNCHANGED << request, fileobj, send_args, perm_checked,
                    selectVars, normVars, pidVars >>

\* no expected checksum handed over
NoExpectedChksum(fo) == None

\* line 170: expected_chksum=fileobj.get('checksum')
ExpectedChksum(fo) == Get(fo.data, "checksum")

\* the flag taken from the value of the argument
AsAttachmentByValue(args) == TruthyStr(Get(args, "download"))

\* line 176: as_attachment=('download' in request.args)
AsAttachment(args) == "download" \in DOMAIN args

\* lines 162-177: the call of ObjectResource.send_object; the permission
\* check of line 165 is a comment, nothing is evaluated before the call
CallSendObject ==
    /\ pc = "resolved"
    /\ fileobj # None
    /\ send_args' = Some([bucket_id |-> fileobj[1].obj.bucket_id,
                          obj |-> fileobj[1].obj,
                          expected_chksum |-> ExpectedChksum(fileobj[1]),
                          logger_data |-> [bucket_id |-> fileobj[1].obj.bucket_id,
                                           pid_type |-> request.pid.pid_type,
                                           pid_value |-> request.pid.pid_value],
                          as_attachment |-> AsAttachment(request.args)])
    /\ pc' = "send_object"
    /\ UNCHANGED << request, fileobj, perm_checked, response,
                    selectVars, normVars, pidVars >>

\* ObjectResource.send_object: the object's checksum is compared with the
\* expected one and a mismatch is an integrity fault; what the responder
\* does without an expected checksum is not fixed by this repository
SendObjectIntegrityFault ==
    /\ pc = "send_object"
    /\ \/ send_args[1].expected_chksum = None
       \/ send_args[1].expected_chksum # Some(send_args[1].obj.checksum)
    /\ response' = [response EXCEPT !.status = 500]
    /\ pc' = "download_done"
    /\ UNCHANGED << request, fileobj, send_args, perm_checked,
                    selectVars, normVars, pidVars >>

\* ObjectResource.send_object: the 200 response starts, with the disposition
\* chosen by as_attachment
SendObjectBegin ==
    /\ pc = "send_object"
    /\ \/ send_args[1].expected_chksum = None
       \/ send_args[1].expected_chksum = Some(send_args[1].obj.checksum)
    /\ response' = [status |-> 200,
                    disposition |-> IF send_args[1].as_attachment
                                    THEN "attachment" ELSE "inline",
                    body |-> 0]
    /\ pc' = "streaming"
    /\ UNCHANGED << request, fileobj, send_args, perm_checked,
                    selectVars, normVars, pidVars >>

\* one chunk of the object is written to the response body
StreamChunk ==
    /\ pc = "streaming"
    /\ response.body < send_args[1].obj.size
    /\ response' = [response EXCEPT !.body = @ + 1]
    /\ pc' = IF response.body + 1 = send_args[1].obj.size
             THEN "download_done" ELSE "streaming"
    /\ UNCHANGED << request, fileobj, send_args, perm_checked,
                    selectVars, normVars, pidVars >>

NextDownload ==
    \/ ResolveFile
    \/ Abort404
    \/ CallSendObject
    \/ SendObjectIntegrityFault
    \/ SendObjectBegin
    \/ StreamChunk

SpecDownload == InitDownload /\ [][NextDownload]_vars

-----------------------------------------------------------------------------
(* Properties of file_download_ui *)

\* C1: send_object is invoked, and a byte of body written, only after the
\* read_files permission check was evaluated and granted.
C1_PermissionBeforeSend ==
    (send_args # None \/ response.body > 0) =>
        (perm_checked /\ request.can_read_files)

\* C3: when the factory returns nothing the view aborts with 404,
\* send_object is never invoked and no byte of body is written.
C3_Abort404 ==
    (pc # "file_download_ui" /\ fileobj = None) =>
        /\ send_args = None
        /\ response.body = 0
        /\ pc = "download_done" => response.status = 404

C3_Witness ==
    /\ pc = "download_done" /\ fileobj = None /\ response.status = 404
    /\ "filename" \in DOMAIN request.kwargs
    /\ DOMAIN request.record_files # {}

RecordedChksum == Get(fileobj[1].data, "checksum")
ActualChksum == fileobj[1].obj.checksum

\* C4: for every resolved file, also one whose entry has no checksum field,
\* a download whose stored object's checksum differs from the checksum
\* recorded on the resolved entry never becomes a 200 response.
C4_Integrity ==
    response.status = 200 => RecordedChksum = Some(ActualChksum)

\* C4 (amended): for a resolved entry that carries a checksum field, the view
\* hands that checksum to send_object as expected_chksum and a download whose
\* stored checksum differs ends as an integrity fault, never as a 200
\* response; for an entry without a checksum field the view hands None.
C4_IntegrityWhenRecorded ==
    /\ send_args # None => send_args[1].expected_chksum = RecordedChksum
    /\ (fileobj # None /\ RecordedChksum # None
            /\ RecordedChksum # Some(ActualChksum)) =>
           /\ response.status # 200 /\ response.body = 0
           /\ pc = "download_done" => response.status = 500

C4_Witness ==
    /\ pc = "download_done" /\ fileobj # None
    /\ RecordedChksum # None /\ RecordedChksum # Some(ActualChksum)
    /\ response.status = 500 /\ response.body = 0

\* C5: as_attachment handed to send_object is true exactly when request.args
\* contains the name 'download', whatever its value, and the resolved file
\* handed over is the same either way.
C5_Disposition ==
    send_args # None =>
        /\ send_args[1].obj = fileobj[1].obj
        /\ send_args[1].as_attachment = ("download" \in DOMAIN request.args)
        /\ response.status = 200 =>
               response.disposition =
                   (IF "download" \in DOMAIN request.args
                    THEN "attachment" ELSE "inline")

C5_Witness ==
    /\ pc = "download_done" /\ response.status = 200
    /\ "download" \in DOMAIN request.args /\ request.args.download = ""
    /\ send_args[1].as_attachment /\ response.disposition = "attachment"

=============================================================================
